---- MODULE Spec2Model ----
(***************************************************************************)
(* Order lifecycle of the inf349 order API (src/inf349/app.py):            *)
(* POST /order, GET /order/<id>, PUT /order/<id> (customer information or  *)
(* card payment through the remote payment service).                      *)
(*                                                                         *)
(* Money is counted in cents (the source holds floats with two decimals).  *)
(* JSON strings are TLA+ strings; None stands for Python None / JSON null  *)
(* and Missing for a key that is absent from a JSON object.                *)
(***************************************************************************)
EXTENDS Integers, Sequences, FiniteSets, TLC

VARIABLES products, orders, response, posted, inflight

vars == <<products, orders, response, posted, inflight>>

----------------------------------------------------------------------------
(* Bounds of the model *)

MaxOrders == 2
MaxQuantity == 3

----------------------------------------------------------------------------
(* Constants of the program *)

\* TAX_DEFAULT = 0.15, in percent
TAX_DEFAULT == 15

\* weight tiers of the shipping price, in grams
LightWeight == 500
HeavyWeight == 2000

\* shipping prices 5.0, 10.0, 25.0, in cents
ShipLight == 500
ShipMedium == 1000
ShipHeavy == 2500

None == "None"
Missing == "<missing>"

\* TAX_BY_PROVINCE, in percent
TAX_BY_PROVINCE == [QC |-> 15, ON |-> 13, AB |-> 5, BC |-> 12, NS |-> 14]

Provinces == DOMAIN TAX_BY_PROVINCE

----------------------------------------------------------------------------
(* Rounding *)

\* Python round(x) of the rational n/d (d > 0, n >= 0): the nearest integer,
\* a tie going to the even neighbour.
RoundHalfEven(n, d) ==
    LET q == n \div d
        r == n % d
    IN  IF 2 * r < d THEN q
        ELSE IF 2 * r > d THEN q + 1
        ELSE IF q % 2 = 0 THEN q ELSE q + 1

----------------------------------------------------------------------------
(* The product table (models.Product), as init_database leaves it: the     *)
(* rows of the remote feed.  price in whole cents, weight in grams.        *)

Feed ==
    << [id |-> 1, price |-> 1579, weight |-> 500, in_stock |-> TRUE],
       [id |-> 2, price |-> 1000, weight |-> 200, in_stock |-> TRUE],
       [id |-> 3, price |-> 2810, weight |-> 299, in_stock |-> FALSE] >>

\* Product.get(Product.id == product_id): the rows with that id
ProductRows(product_id) == {p \in products : p.id = product_id}

----------------------------------------------------------------------------
(* JSON values held in the card and transaction columns *)

JDict(v) == [type |-> "dict", val |-> v]
EmptyDict == JDict("")
JMissing == [type |-> "missing", val |-> ""]

CardRecord == JDict("card 4242")
TransactionRecord == JDict("tx wgEQ4zAUdYqpr21rt8A10dDrKbfcLmqi")

JsonValues == {EmptyDict, CardRecord, TransactionRecord}

\* json.dumps(value): the text stored in the column
Dumps(v) == IF v.val = "" THEN "{}" ELSE "{" \o v.val \o "}"

\* json.loads(text): the value, or a failure when no value has that text
LoadsOk(text) == \E v \in JsonValues : Dumps(v) = text
Loads(text) == CHOOSE v \in JsonValues : Dumps(v) = text

\* try: json.loads(text) except Exception: {}
LoadsOrEmpty(text) == IF LoadsOk(text) THEN Loads(text) ELSE EmptyDict

----------------------------------------------------------------------------
(* Responses.  shape is the form of the body: "errors" is                  *)
(* {"errors": {entity: {"code", "name"}}}, "error" is {"error": text},     *)
(* "order" is {"order": view}, "redirect" is the empty 302 body, "remote"  *)
(* is the body of the payment service and "exception" an exception that    *)
(* leaves the view function.                                               *)

NoView == [id |-> 0]
NoBody == [json |-> "none", credit_card |-> JMissing, transaction |-> JMissing, errors |-> ""]

Resp(status, shape, entity, code) ==
    [status |-> status, shape |-> shape, entity |-> entity, code |-> code,
     view |-> NoView, remote |-> NoBody]

ErrorsResp(status, entity, code) == Resp(status, "errors", entity, code)

\* _error_missing_fields_order
ErrorMissingFieldsOrder == ErrorsResp(422, "order", "missing-fields")

\* _error_order_already_paid
ErrorOrderAlreadyPaid == ErrorsResp(422, "order", "already-paid")

\* an exception no handler catches
Raised == Resp(500, "exception", "", "")

OrderResp(view) == [Resp(200, "order", "", "") EXCEPT !.view = view]

RemoteResp(status, body) == [Resp(status, "remote", "", "") EXCEPT !.remote = body]

NoCall == [op |-> "none", order_id |-> 0]
NoRequest == [sent |-> FALSE, credit_card |-> "", amount_charged |-> 0]

----------------------------------------------------------------------------
(* POST /order *)

JInt(n) == [type |-> "int", n |-> n]
JBadInt == [type |-> "str", n |-> 0]
JNoInt == [type |-> "missing", n |-> 0]

\* int(value) succeeds
IntOk(v) == v.type = "int"

ProductObj(id, quantity) == [type |-> "dict", id |-> id, quantity |-> quantity]
NoProductObj == [type |-> "missing", id |-> JNoInt, quantity |-> JNoInt]
BadProductObj == [type |-> "str", id |-> JNoInt, quantity |-> JNoInt]

\* the two comparisons with the boundary on the wrong side
ShippingPriceOffBoundary(poids_total) ==
    IF poids_total < LightWeight THEN ShipLight
    ELSE IF poids_total <= HeavyWeight THEN ShipMedium
    ELSE ShipHeavy

\* poids_total -> shipping_price
ShippingPrice(poids_total) ==
    IF poids_total <= LightWeight THEN ShipLight
    ELSE IF poids_total < HeavyWeight THEN ShipMedium
    ELSE ShipHeavy

\* the amount with tax cut to whole cents instead of rounded
TotalTTCTruncated(total_ht) == (total_ht * (100 + TAX_DEFAULT)) \div 100

\* round(total_ht * (1 + TAX_DEFAULT), 2)
TotalTTC(total_ht) == RoundHalfEven(total_ht * (100 + TAX_DEFAULT), 100)

\* Order.create(...): the new row
NewOrder(id, product, quantity) ==
    LET total_ht == product.price * quantity
        poids_total == product.weight * quantity
    IN  [id |-> id,
         product |-> product.id,
         quantity |-> quantity,
         total_price |-> total_ht,
         total_price_tax |-> TotalTTC(total_ht),
         shipping_price |-> ShippingPrice(poids_total),
         email |-> None,
         shipping_country |-> None,
         shipping_address |-> None,
         shipping_postal_code |-> None,
         shipping_city |-> None,
         shipping_province |-> None,
         paid |-> FALSE,
         credit_card |-> "{}",
         transaction |-> "{}"]

\* the checks of create_order, in the order of the code: the error response,
\* or Resp(302, ...) when the order is to be created
CreateChecks(body) ==
    IF ~body.is_json THEN ErrorsResp(422, "product", "missing-fields")
    ELSE IF body.type # "dict" THEN Raised
    ELSE IF body.product.type # "dict" THEN ErrorsResp(422, "product", "missing-fields")
    ELSE IF body.product.id.type = "missing" \/ body.product.quantity.type = "missing"
        THEN ErrorsResp(422, "product", "missing-fields")
    ELSE IF ~(IntOk(body.product.id) /\ IntOk(body.product.quantity))
        THEN ErrorsResp(422, "product", "missing-fields")
    ELSE IF body.product.quantity.n < 1 THEN ErrorsResp(422, "product", "missing-fields")
    ELSE IF ProductRows(body.product.id.n) = {}
        THEN ErrorsResp(422, "product", "out-of-inventory")
    ELSE IF \E p \in ProductRows(body.product.id.n) : ~p.in_stock
        THEN ErrorsResp(422, "product", "out-of-inventory")
    ELSE Resp(302, "redirect", "", "")

\* request.get_json() of a request whose body is a JSON object
CreateBody(product) == [is_json |-> TRUE, type |-> "dict", product |-> product]

\* a request that is not JSON, and one whose JSON body is null (or a number)
NotJsonBody == [is_json |-> FALSE, type |-> "none", product |-> NoProductObj]
NullBody == [is_json |-> TRUE, type |-> "none", product |-> NoProductObj]

CreateBodies ==
    {NotJsonBody,
     NullBody,
     CreateBody(NoProductObj),
     CreateBody(BadProductObj),
     CreateBody(ProductObj(JNoInt, JInt(1))),
     CreateBody(ProductObj(JInt(1), JNoInt)),
     CreateBody(ProductObj(JBadInt, JInt(1))),
     CreateBody(ProductObj(JInt(1), JBadInt))}
    \cup {CreateBody(ProductObj(JInt(i), JInt(q))) :
            i \in 1 .. Len(Feed) + 1, q \in 1 .. MaxQuantity}
    \cup {CreateBody(ProductObj(JInt(1), JInt(q))) : q \in {-1, 0}}

create_order(body) ==
    LET r == CreateChecks(body)
        id == Len(orders) + 1
    IN  /\ r.status = 302 => Len(orders) < MaxOrders
        /\ IF r.status = 302
           THEN LET product == CHOOSE p \in ProductRows(body.product.id.n) : TRUE
                IN  /\ orders' = Append(orders, NewOrder(id, product, body.product.quantity.n))
                    /\ response' = [call |-> [op |-> "create", order_id |-> id], result |-> r]
           ELSE /\ orders' = orders
                /\ response' = [call |-> [op |-> "create", order_id |-> 0], result |-> r]
        /\ posted' = NoRequest
        /\ UNCHANGED <<products, inflight>>

----------------------------------------------------------------------------
(* GET /order/<order_id> *)

OrderIds == 1 .. Len(orders)

NoShippingInformation ==
    [country |-> Missing, address |-> Missing, postal_code |-> Missing,
     city |-> Missing, province |-> Missing]

\* the shipping_information of a view, from the five columns
ShippingInformation(order) ==
    [country |-> order.shipping_country,
     address |-> order.shipping_address,
     postal_code |-> order.shipping_postal_code,
     city |-> order.shipping_city,
     province |-> order.shipping_province]

\* the "order" object get_order returns
GetView(order) ==
    [id |-> order.id,
     total_price |-> order.total_price,
     total_price_tax |-> order.total_price_tax,
     email |-> order.email,
     credit_card |-> LoadsOrEmpty(order.credit_card),
     shipping_information |->
         IF order.shipping_country = None THEN NoShippingInformation
         ELSE ShippingInformation(order),
     paid |-> order.paid,
     transaction |-> LoadsOrEmpty(order.transaction),
     product |-> order.product,
     quantity |-> order.quantity,
     shipping_price |-> order.shipping_price]

get_order(order_id) ==
    /\ response' =
         [call |-> [op |-> "read", order_id |-> order_id],
          result |-> IF order_id \notin OrderIds
                     THEN ErrorsResp(404, "order", "not-found")
                     ELSE OrderResp(GetView(orders[order_id]))]
    /\ posted' = NoRequest
    /\ UNCHANGED <<products, orders, inflight>>

----------------------------------------------------------------------------
(* PUT /order/<order_id>: the request bodies *)

\* the value of "shipping_information"
ShipDict(country, address, postal_code, city, province) ==
    [type |-> "dict", country |-> country, address |-> address,
     postal_code |-> postal_code, city |-> city, province |-> province]
ShipNotDict == [ShipDict(Missing, Missing, Missing, Missing, Missing) EXCEPT !.type = "str"]
ShipMissing == [ShipDict(Missing, Missing, Missing, Missing, Missing) EXCEPT !.type = "missing"]

\* the value of "order"
OrderDict(email, ship) == [type |-> "dict", email |-> email, shipping_information |-> ship]
OrderNotDict == [type |-> "int", email |-> Missing, shipping_information |-> ShipMissing]
OrderMissing == [type |-> "missing", email |-> Missing, shipping_information |-> ShipMissing]

\* the value of "credit_card"
CardDict(number) == [type |-> "dict", number |-> number]
CardNotDict == [type |-> "str", number |-> ""]
CardMissing == [type |-> "missing", number |-> ""]

\* request.get_json(silent=True); resubmitted is the set of the other keys the
\* body carries (columns of the order sent along), which the handler never reads
DataWith(order, credit_card, resubmitted) ==
    [type |-> "dict", order |-> order, credit_card |-> credit_card,
     resubmitted |-> resubmitted]
Data(order, credit_card) == DataWith(order, credit_card, {})
DataNotDict ==
    [type |-> "none", order |-> OrderMissing, credit_card |-> CardMissing,
     resubmitted |-> {}]

ShipFields == {"country", "address", "postal_code", "city", "province"}

\* the customer information a client may send
Alice(province) ==
    OrderDict("alice@uqac.ca",
              ShipDict("Canada", "201 rue Principale", "G7X 3Y7", "Chicoutimi", province))
Bob(province) ==
    OrderDict("bob@example.org",
              ShipDict("CA", "12 King Street", "M5H 1A1", "Toronto", province))

OrderPayloads ==
    {Alice("QC"), Bob("ON"), Alice("ZZ"), OrderNotDict,
     [Alice("QC") EXCEPT !.email = Missing],
     [Alice("QC") EXCEPT !.email = None],
     [Alice("QC") EXCEPT !.shipping_information.city = Missing],
     [Alice("QC") EXCEPT !.shipping_information = ShipNotDict],
     [Alice("QC") EXCEPT !.shipping_information = ShipMissing]}

ValidCard == CardDict("4242 4242 4242 4242")
OtherCard == CardDict("5555 5555 5555 4444")

----------------------------------------------------------------------------
(* The answers of the remote payment service to requests.post *)

Body(credit_card, transaction) ==
    [json |-> "dict", credit_card |-> credit_card, transaction |-> transaction, errors |-> ""]
ErrorBody(code) == [NoBody EXCEPT !.json = "dict", !.errors = code]
ListBody == [NoBody EXCEPT !.json = "list"]
InvalidBody == [NoBody EXCEPT !.json = "invalid"]

Answer(status_code, body) == [kind |-> "response", status_code |-> status_code, body |-> body]
RequestException == [kind |-> "RequestException", status_code |-> 0, body |-> NoBody]

GatewayAnswers ==
    {RequestException,
     Answer(200, Body(CardRecord, TransactionRecord)),
     Answer(200, Body(CardRecord, JMissing)),
     Answer(200, ListBody),
     Answer(200, InvalidBody),
     Answer(422, ErrorBody("card-declined")),
     Answer(422, InvalidBody),
     Answer(500, ErrorBody("internal"))}

\* pay_response.json() returns a value
JsonOk(body) == body.json \in {"dict", "list"}

\* resp_json.get(key, {})
GetOrEmpty(value) == IF value = JMissing THEN EmptyDict ELSE value

----------------------------------------------------------------------------
(* PUT /order/<order_id>: what the handler does with the row it read.     *)
(* An outcome is the row as the handler leaves it, whether it saved it,   *)
(* the response and the request posted to the payment service.            *)

Outcome(order, saved, result, request) ==
    [order |-> order, saved |-> saved, result |-> result, posted |-> request]

Reject(order, result) == Outcome(order, FALSE, result, NoRequest)

\* the "order" object of the two 200 answers of update_or_pay_order
PutView(order, credit_card, transaction) ==
    [id |-> order.id,
     total_price |-> order.total_price,
     total_price_tax |-> order.total_price_tax,
     email |-> order.email,
     credit_card |-> credit_card,
     shipping_information |-> ShippingInformation(order),
     paid |-> order.paid,
     transaction |-> transaction,
     product |-> order.product,
     quantity |-> order.quantity,
     shipping_price |-> order.shipping_price]

\* "for field in (...): if field not in ship_info"
ShipFieldMissing(ship_info) ==
    \/ ship_info.country = Missing
    \/ ship_info.address = Missing
    \/ ship_info.postal_code = Missing
    \/ ship_info.city = Missing
    \/ ship_info.province = Missing

\* the assignments, with the total with tax written to the wrong column
UpdateCustomerInfoWrongColumn(order, payload) ==
    [order EXCEPT !.email = payload.email,
                  !.shipping_country = payload.shipping_information.country,
                  !.shipping_address = payload.shipping_information.address,
                  !.shipping_postal_code = payload.shipping_information.postal_code,
                  !.shipping_city = payload.shipping_information.city,
                  !.shipping_province = payload.shipping_information.province,
                  !.total_price = order.total_price_tax]

\* "Mettre a jour en base": the assignments before order.save()
UpdateCustomerInfo(order, payload) ==
    [order EXCEPT !.email = payload.email,
                  !.shipping_country = payload.shipping_information.country,
                  !.shipping_address = payload.shipping_information.address,
                  !.shipping_postal_code = payload.shipping_information.postal_code,
                  !.shipping_city = payload.shipping_information.city,
                  !.shipping_province = payload.shipping_information.province]

\* the check of order.paid forgotten
InfoNeverRefused(order) == FALSE

\* "if order.paid" of case 1
InfoRefusedAsPaid(order) == order.paid

\* case 1 of update_or_pay_order: "order" in data
SetInfoOutcome(order, payload) ==
    IF payload.type # "dict" THEN Reject(order, Raised)
    ELSE IF payload.email = Missing \/ payload.shipping_information.type = "missing"
        THEN Reject(order, ErrorMissingFieldsOrder)
    ELSE IF InfoRefusedAsPaid(order) THEN Reject(order, ErrorOrderAlreadyPaid)
    ELSE IF payload.shipping_information.type # "dict"
        THEN Reject(order, ErrorMissingFieldsOrder)
    ELSE IF ShipFieldMissing(payload.shipping_information)
        THEN Reject(order, ErrorMissingFieldsOrder)
    ELSE LET saved == UpdateCustomerInfo(order, payload)
         IN  IF LoadsOk(saved.credit_card) /\ LoadsOk(saved.transaction)
             THEN Outcome(saved, TRUE,
                          OrderResp(PutView(saved, Loads(saved.credit_card),
                                            Loads(saved.transaction))),
                          NoRequest)
             ELSE Outcome(saved, TRUE, Raised, NoRequest)

\* order.email left out of the required tuple
ShippingMissing(order) ==
    \/ order.shipping_country = None
    \/ order.shipping_address = None
    \/ order.shipping_postal_code = None
    \/ order.shipping_city = None
    \/ order.shipping_province = None

\* "any(val is None for val in required)"
CustomerInfoMissing(order) ==
    \/ order.email = None
    \/ order.shipping_country = None
    \/ order.shipping_address = None
    \/ order.shipping_postal_code = None
    \/ order.shipping_city = None
    \/ order.shipping_province = None

\* the amount without the shipping price
MontantWithoutShipping(order) == RoundHalfEven(order.total_price_tax, 100)

\* the amount with a tie rounded up instead of to the even unit
MontantHalfUp(order) == (order.total_price_tax + order.shipping_price + 50) \div 100

\* montant = int(round(order.total_price_tax + order.shipping_price)), in whole units
Montant(order) == RoundHalfEven(order.total_price_tax + order.shipping_price, 100)

\* the assignments of the 200 branch before order.save()
MarkPaid(order, received_cc, received_tx) ==
    [order EXCEPT !.credit_card = Dumps(received_cc),
                  !.transaction = Dumps(received_tx),
                  !.paid = TRUE]

\* what follows requests.post, by the answer of the payment service
AfterPost(order, request, answer) ==
    IF answer.kind = "RequestException"
    THEN Outcome(order, FALSE, ErrorsResp(502, "payment", "service-unavailable"), request)
    ELSE IF answer.status_code = 422
    THEN IF JsonOk(answer.body)
         THEN Outcome(order, FALSE, RemoteResp(422, answer.body), request)
         ELSE Outcome(order, FALSE, Raised, request)
    ELSE IF answer.status_code = 200
    THEN IF answer.body.json # "dict"
         THEN Outcome(order, FALSE, Raised, request)
         ELSE LET received_cc == GetOrEmpty(answer.body.credit_card)
                  received_tx == GetOrEmpty(answer.body.transaction)
                  saved == MarkPaid(order, received_cc, received_tx)
              IN  Outcome(saved, TRUE, OrderResp(PutView(saved, received_cc, received_tx)),
                          request)
    ELSE Outcome(order, FALSE, ErrorsResp(502, "payment", "service-error"), request)

\* the check of order.paid forgotten
PayNeverRefused(order) == FALSE

\* "if order.paid" of case 2
PayRefusedAsPaid(order) == order.paid

\* case 2 of update_or_pay_order: "credit_card" in data
PayOutcome(order, cc_obj, answer) ==
    IF cc_obj.type # "dict" THEN Reject(order, ErrorMissingFieldsOrder)
    ELSE IF CustomerInfoMissing(order) THEN Reject(order, ErrorMissingFieldsOrder)
    ELSE IF PayRefusedAsPaid(order) THEN Reject(order, ErrorOrderAlreadyPaid)
    ELSE AfterPost(order,
                   [sent |-> TRUE, credit_card |-> cc_obj.number,
                    amount_charged |-> Montant(order)],
                   answer)

\* update_or_pay_order once the row is read
PutOutcome(order, data, answer) ==
    IF data.type # "dict" THEN Reject(order, ErrorMissingFieldsOrder)
    ELSE IF data.order.type # "missing" THEN SetInfoOutcome(order, data.order)
    ELSE IF data.credit_card.type # "missing" THEN PayOutcome(order, data.credit_card, answer)
    ELSE Reject(order, ErrorMissingFieldsOrder)

\* the operation a PUT body asks for
PutOp(data) ==
    IF data.type # "dict" THEN "put"
    ELSE IF data.order.type # "missing" THEN "set_customer_info"
    ELSE IF data.credit_card.type # "missing" THEN "pay"
    ELSE "put"

\* the whole handler, run without interleaving
update_or_pay_order(order_id, data, answer) ==
    /\ IF order_id \notin OrderIds
       THEN /\ response' = [call |-> [op |-> PutOp(data), order_id |-> order_id],
                            result |-> Resp(404, "error", "", "")]
            /\ posted' = NoRequest
            /\ orders' = orders
       ELSE LET out == PutOutcome(orders[order_id], data, answer)
            IN  /\ response' = [call |-> [op |-> PutOp(data), order_id |-> order_id],
                                result |-> out.result]
                /\ posted' = out.posted
                /\ orders' = IF out.saved THEN [orders EXCEPT ![order_id] = out.order]
                             ELSE orders
    /\ UNCHANGED <<products, inflight>>

----------------------------------------------------------------------------
(* The API, one request at a time *)

Init ==
    /\ products = {Feed[i] : i \in DOMAIN Feed}
    /\ orders = << >>
    /\ response = [call |-> NoCall, result |-> Resp(0, "none", "", "")]
    /\ posted = NoRequest
    /\ inflight = {}

UnknownId == Len(orders) + 1

Create == \E body \in CreateBodies : create_order(body)

Read == \E order_id \in OrderIds \cup {UnknownId} : get_order(order_id)

SetCustomerInfo ==
    \E order_id \in OrderIds, payload \in OrderPayloads :
        update_or_pay_order(order_id, Data(payload, CardMissing), RequestException)

Pay ==
    \E order_id \in OrderIds, answer \in GatewayAnswers :
        update_or_pay_order(order_id, Data(OrderMissing, ValidCard), answer)

PayBadCard ==
    \E order_id \in OrderIds :
        update_or_pay_order(order_id, Data(OrderMissing, CardNotDict), RequestException)

PutOther ==
    \E order_id \in OrderIds, data \in {DataNotDict, Data(OrderMissing, CardMissing)} :
        update_or_pay_order(order_id, data, RequestException)

PutUnknown ==
    \E data \in {Data(Alice("QC"), CardMissing), Data(OrderMissing, ValidCard), DataNotDict} :
        update_or_pay_order(UnknownId, data, RequestException)

\* customer information or a card, sent with columns of the order
ResubmitData ==
    {DataWith(Alice("QC"), CardMissing, {"quantity"}),
     DataWith(Alice("QC"), CardMissing, {"id", "product", "total_price", "shipping_price"}),
     DataWith(OrderMissing, ValidCard, {"shipping_price"})}

Resubmit ==
    \E order_id \in OrderIds, data \in ResubmitData :
        update_or_pay_order(order_id, data, Answer(200, Body(CardRecord, TransactionRecord)))

Next ==
    \/ Create \/ Read \/ SetCustomerInfo \/ Pay \/ PayBadCard \/ PutOther \/ PutUnknown
    \/ Resubmit

Spec == Init /\ [][Next]_vars

----------------------------------------------------------------------------
(* The API with PUT requests served concurrently.  A handler reads the    *)
(* row (Order.get_or_none) and later, from the copy it read, answers and  *)
(* saves: order.save() writes every column of the copy.                   *)

MaxInflight == 2
ConcOrders == 1

ConcPayloads == {Alice("QC"), Bob("ON")}
ConcAnswers == {Answer(200, Body(CardRecord, TransactionRecord)),
                Answer(422, ErrorBody("card-declined"))}

ConcCreate ==
    /\ Len(orders) < ConcOrders
    /\ Create

\* Order.get_or_none(Order.id == order_id) of a request that found the row
put_read(order_id, data) ==
    /\ Cardinality(inflight) < MaxInflight
    /\ inflight' = inflight \cup {[order_id |-> order_id, data |-> data,
                                   order |-> orders[order_id]]}
    /\ UNCHANGED <<products, orders, response, posted>>

\* the rest of the handler, on the copy it read
put_finish(req, answer) ==
    LET out == PutOutcome(req.order, req.data, answer)
    IN  /\ inflight' = inflight \ {req}
        /\ response' = [call |-> [op |-> PutOp(req.data), order_id |-> req.order_id],
                        result |-> out.result]
        /\ posted' = out.posted
        /\ orders' = IF out.saved THEN [orders EXCEPT ![req.order_id] = out.order]
                     ELSE orders
        /\ UNCHANGED products

PutRead ==
    \E order_id \in OrderIds,
       data \in {Data(payload, CardMissing) : payload \in ConcPayloads}
                \cup {Data(OrderMissing, ValidCard), Data(OrderMissing, OtherCard)} :
        put_read(order_id, data)

PutFinish == \E req \in inflight, answer \in ConcAnswers : put_finish(req, answer)

ConcNext == ConcCreate \/ PutRead \/ PutFinish

ConcSpec == Init /\ [][ConcNext]_vars

----------------------------------------------------------------------------
(* The concurrent API with its progress.  A handler runs on until it       *)
(* returns, except in requests.post, which is called without a timeout     *)
(* and returns only when the payment service answers or the connection     *)
(* fails.                                                                  *)

\* the handler of this request reaches requests.post
NeedsGateway(req) == PutOutcome(req.order, req.data, RequestException).posted.sent

\* a handler that returns without calling the payment service
FinishLocal ==
    \E req \in inflight :
        /\ ~NeedsGateway(req)
        /\ put_finish(req, RequestException)

\* requests.post returns (an answer or a RequestException) and the handler ends
GatewayReply ==
    \E req \in inflight, answer \in ConcAnswers \cup {RequestException} :
        /\ NeedsGateway(req)
        /\ put_finish(req, answer)

LiveNext == ConcCreate \/ PutRead \/ FinishLocal \/ GatewayReply

LiveSpec == Init /\ [][LiveNext]_vars /\ WF_vars(FinishLocal)

----------------------------------------------------------------------------
(* init_database, run at each start of the process, from an empty table   *)

\* another content of the remote feed, and a feed without products
OtherFeed == << [id |-> 4, price |-> 2500, weight |-> 1000, in_stock |-> TRUE] >>
EmptyFeed == << >>

\* requests.get(REMOTE_URL) followed by raise_for_status()
Fetched(feed) == [ok |-> TRUE, products |-> feed]
FetchFailed == [ok |-> FALSE, products |-> EmptyFeed]

FeedAnswers == {Fetched(Feed), Fetched(OtherFeed), Fetched(EmptyFeed), FetchFailed}

\* the count check forgotten: the feed is loaded at every start
TableAlwaysEmpty(table) == TRUE

\* "count == 0"
TableEmpty(table) == Cardinality(table) = 0

\* Product.create for every item of the feed, inside DATABASE.atomic(): a
\* primary key that is already in the table raises IntegrityError and the
\* whole insertion is rolled back
InsertOk(table, feed) ==
    /\ \A k \in DOMAIN feed : \A p \in table : p.id # feed[k].id
    /\ \A k, l \in DOMAIN feed : feed[k].id = feed[l].id => k = l
Inserted(table, feed) ==
    table \cup {[id |-> feed[k].id, price |-> feed[k].price,
                 weight |-> feed[k].weight, in_stock |-> feed[k].in_stock] :
                    k \in DOMAIN feed}

\* the table init_database leaves
AfterBootstrap(table, fetch) ==
    IF ~TableEmpty(table) THEN table
    ELSE IF ~fetch.ok THEN table
    ELSE IF ~InsertOk(table, fetch.products) THEN table
    ELSE Inserted(table, fetch.products)

\* what init_database reports: the message it prints, or the exception
BootstrapResult(table, fetch) ==
    IF ~TableEmpty(table) THEN Resp(0, "present", "", "")
    ELSE IF ~fetch.ok THEN Raised
    ELSE IF ~InsertOk(table, fetch.products) THEN Raised
    ELSE Resp(0, "fetched", "", "")

init_database(fetch) ==
    /\ products' = AfterBootstrap(products, fetch)
    /\ response' = [call |-> [op |-> "bootstrap", order_id |-> 0],
                    result |-> BootstrapResult(products, fetch)]
    /\ posted' = NoRequest
    /\ UNCHANGED <<orders, inflight>>

BootInit ==
    /\ products = {}
    /\ orders = << >>
    /\ response = [call |-> NoCall, result |-> Resp(0, "none", "", "")]
    /\ posted = NoRequest
    /\ inflight = {}

Bootstrap == \E fetch \in FeedAnswers : init_database(fetch)

BootNext == Bootstrap \/ Create \/ Read

BootSpec == BootInit /\ [][BootNext]_vars

----------------------------------------------------------------------------
(* POST /order over the quantities that reach every weight tier *)

MaxShipQuantity == 11

ShipBodies ==
    {CreateBody(ProductObj(JInt(i), JInt(q))) :
        i \in 1 .. Len(Feed), q \in 1 .. MaxShipQuantity}

ShipCreate == \E body \in ShipBodies : create_order(body)

ShipNext == ShipCreate \/ Read

ShipSpec == Init /\ [][ShipNext]_vars

----------------------------------------------------------------------------
(* What the specification says of the API *)

\* the last request handled
Called(op, order_id) == response.call = [op |-> op, order_id |-> order_id]

\* a value that is a non-empty string
NonEmptyString(v) == v \notin {Missing, None, ""}

\* an order that lacks its email or a part of its shipping address
InfoIncomplete(order) ==
    \/ order.email = None
    \/ \E f \in ShipFields : ShippingInformation(order)[f] = None

\* the payment service answers with success
Success(answer) == answer.kind = "response" /\ answer.status_code = 200

\* a GatewayError result
GatewayError(result) ==
    result.status = 502 /\ result.shape = "errors" /\ result.entity = "payment"

\* a ValidationError result
ValidationError(result) ==
    result.status = 422 /\ result.shape = "errors"
        /\ result.code \in {"missing-fields", "invalid-field"}

\* customer information as SetCustomerInfo requires it
ValidCustomerInfo(payload) ==
    /\ payload.type = "dict"
    /\ NonEmptyString(payload.email)
    /\ payload.shipping_information.type = "dict"
    /\ \A f \in ShipFields : NonEmptyString(payload.shipping_information[f])
    /\ payload.shipping_information.province \in Provinces

\* a is b / 100 rounded to a nearest integer
Rounds(a, b) == 100 * a - b <= 50 /\ b - 100 * a <= 50

PayData == Data(OrderMissing, ValidCard)

\* C1: once an order is paid, no later request changes its paid flag, email,
\* shipping address, card record or transaction record.
C1_PaidIsTerminal ==
    [][\A i \in OrderIds : orders[i].paid =>
          /\ orders'[i].paid
          /\ orders'[i].email = orders[i].email
          /\ ShippingInformation(orders'[i]) = ShippingInformation(orders[i])
          /\ orders'[i].credit_card = orders[i].credit_card
          /\ orders'[i].transaction = orders[i].transaction]_vars

\* C1: SetCustomerInfo was called on a paid order (and refused).
C1_Witness ==
    \E i \in OrderIds :
        /\ orders[i].paid
        /\ Called("set_customer_info", i)
        /\ response.result = ErrorOrderAlreadyPaid

\* C2: every paid order has a non-empty transaction record, an email and a
\* whole shipping address.
C2_PaidHasRecords ==
    \A i \in OrderIds : orders[i].paid =>
        /\ GetView(orders[i]).transaction # EmptyDict
        /\ ~InfoIncomplete(orders[i])

\* C3: with requests served concurrently, a payment that was saved is never
\* undone and the customer information of a paid order never changes.
C3_PayNeverUndone ==
    [][\A i \in OrderIds : orders[i].paid =>
          /\ orders'[i].paid
          /\ orders'[i].email = orders[i].email
          /\ ShippingInformation(orders'[i]) = ShippingInformation(orders[i])]_vars

\* C4: an order whose province is one of the table is read with taxTotal =
\* round(lineTotal x (1 + rate of the province), 2).
C4_TaxFollowsProvince ==
    \A i \in OrderIds : orders[i].shipping_province \in Provinces =>
        Rounds(GetView(orders[i]).total_price_tax,
               GetView(orders[i]).total_price
                   * (100 + TAX_BY_PROVINCE[orders[i].shipping_province]))

\* C5: Pay on an order that lacks its email or a part of its shipping address
\* answers missing-fields, posts nothing to the payment service and changes
\* no order, whatever the card payload.
C5_PayNeedsCustomerInfo ==
    [][\A i \in OrderIds :
          (response'.call = [op |-> "pay", order_id |-> i] /\ InfoIncomplete(orders[i]))
          => /\ response'.result = ErrorMissingFieldsOrder
             /\ ~orders'[i].paid
             /\ posted' = NoRequest
             /\ orders' = orders]_vars

\* C5: Pay was refused on an order that has a shipping address and no email.
C5_Witness ==
    \E i \in OrderIds :
        /\ Called("pay", i)
        /\ response.result = ErrorMissingFieldsOrder
        /\ orders[i].email = None
        /\ orders[i].shipping_country # None

\* C6 as stated: every Pay on a paid order answers already-paid, posts nothing
\* and changes no order.
C6_AlwaysAlreadyPaid ==
    [][\A i \in OrderIds :
          (response'.call = [op |-> "pay", order_id |-> i] /\ orders[i].paid)
          => /\ response'.result = ErrorOrderAlreadyPaid
             /\ posted' = NoRequest
             /\ orders' = orders]_vars

\* C6 amended: Pay on a paid order posts nothing and changes no order; it
\* answers already-paid when the credit_card payload is an object and
\* missing-fields when it is not.
C6_PayOnPaidOrder ==
    [][\A i \in OrderIds :
          (response'.call = [op |-> "pay", order_id |-> i] /\ orders[i].paid)
          => /\ posted' = NoRequest
             /\ orders' = orders
             /\ (\E answer \in GatewayAnswers : update_or_pay_order(i, PayData, answer))
                   => response'.result = ErrorOrderAlreadyPaid
             /\ update_or_pay_order(i, Data(OrderMissing, CardNotDict), RequestException)
                   => response'.result = ErrorMissingFieldsOrder]_vars

\* C6: Pay with a card object was refused as already paid on a paid order.
C6_Witness ==
    \E i \in OrderIds :
        /\ Called("pay", i)
        /\ orders[i].paid
        /\ response.result = ErrorOrderAlreadyPaid

\* C7: when the payment service does not answer a Pay with success, no order
\* changes and the order stays unpaid; a 422 answer is returned as it is, a
\* transport failure or another status gives a GatewayError.
C7_GatewayFailure ==
    [][\A i \in OrderIds, answer \in GatewayAnswers :
          (update_or_pay_order(i, PayData, answer) /\ posted'.sent /\ ~Success(answer))
          => /\ orders' = orders
             /\ ~orders'[i].paid
             /\ IF answer.kind = "response" /\ answer.status_code = 422
                THEN response'.result = RemoteResp(422, answer.body)
                ELSE GatewayError(response'.result)]_vars

\* a record that is the payload of the answer (the empty record when the
\* answer holds no such payload)
IsPayload(record, payload) ==
    IF payload = JMissing THEN record = EmptyDict ELSE record = payload

\* C8: when the payment service answers a Pay with success, the order is paid,
\* its card and transaction records are the payloads of the answer, its other
\* fields are unchanged and the response shows the order as saved.
C8_GatewaySuccess ==
    [][\A i \in OrderIds, answer \in GatewayAnswers :
          (update_or_pay_order(i, PayData, answer) /\ posted'.sent /\ Success(answer))
          => /\ orders'[i].paid
             /\ IsPayload(GetView(orders'[i]).credit_card, answer.body.credit_card)
             /\ IsPayload(GetView(orders'[i]).transaction, answer.body.transaction)
             /\ orders' = [orders EXCEPT ![i].paid = TRUE,
                                         ![i].credit_card = orders'[i].credit_card,
                                         ![i].transaction = orders'[i].transaction]
             /\ response'.result.shape = "order"
             /\ response'.result.view.paid
             /\ response'.result.view = GetView(orders'[i])]_vars

\* C9: SetCustomerInfo on an unpaid order with an email or a shipping field that
\* is missing or not a non-empty string, or with a province out of the table,
\* answers a ValidationError and changes no order.
C9_InvalidInfoRejected ==
    [][\A i \in OrderIds, payload \in OrderPayloads :
          (/\ update_or_pay_order(i, Data(payload, CardMissing), RequestException)
           /\ ~orders[i].paid
           /\ ~ValidCustomerInfo(payload))
          => /\ ValidationError(response'.result)
             /\ orders' = orders]_vars

\* C10: Create for a product in stock and a quantity >= 1 adds exactly one
\* order, with an id no other order has, lineTotal = price x quantity,
\* taxTotal = round(lineTotal x 1.15, 2), unpaid, with empty card and
\* transaction records and no customer information.
C10_CreatePersists ==
    [][\A n \in DOMAIN Feed, q \in 1 .. MaxQuantity :
          (/\ response'.call.op = "create"
           /\ Feed[n].in_stock
           /\ create_order(CreateBody(ProductObj(JInt(Feed[n].id), JInt(q)))))
          => /\ response'.result.status = 302
             /\ Len(orders') = Len(orders) + 1
             /\ SubSeq(orders', 1, Len(orders)) = orders
             /\ LET new == orders'[Len(orders')]
                IN  /\ \A i \in OrderIds : orders[i].id # new.id
                    /\ response'.call.order_id = new.id
                    /\ new.product = Feed[n].id
                    /\ new.quantity = q
                    /\ new.total_price = Feed[n].price * q
                    /\ Rounds(new.total_price_tax, new.total_price * 115)
                    /\ ~new.paid
                    /\ GetView(new).credit_card = EmptyDict
                    /\ GetView(new).transaction = EmptyDict
                    /\ new.email = None
                    /\ \A f \in ShipFields : ShippingInformation(new)[f] = None]_vars

\* C10: a second order was created, with another id than the first.
C10_Witness ==
    /\ Len(orders) = 2
    /\ Called("create", orders[2].id)
    /\ response.result.status = 302
    /\ orders[1].id # orders[2].id
    /\ orders[2].total_price = Feed[1].price * orders[2].quantity

\* the total weight of an order, from the product table
TotalWeight(order) ==
    LET p == CHOOSE p \in products : p.id = order.product
    IN  p.weight * order.quantity

\* C11: a Create stores shippingFee 5.00 for a total weight w <= 500, 10.00
\* for 500 < w < 2000 and 25.00 for w >= 2000.
C11_ShippingTiers ==
    [][(response'.call.op = "create" /\ response'.result.status = 302)
          => LET new == orders'[Len(orders')]
                 w == TotalWeight(new)
             IN  /\ Len(orders') = Len(orders) + 1
                 /\ w <= 500 => new.shipping_price = 500
                 /\ (500 < w /\ w < 2000) => new.shipping_price = 1000
                 /\ w >= 2000 => new.shipping_price = 2500]_vars

\* C11: orders of total weight exactly 500 and exactly 2000 were created.
C11_Witness ==
    /\ Len(orders) = 2
    /\ TotalWeight(orders[1]) = 500 /\ orders[1].shipping_price = 500
    /\ TotalWeight(orders[2]) = 2000 /\ orders[2].shipping_price = 2500
    /\ Called("create", 2)

\* a Create body whose product reference is missing or malformed, or whose
\* quantity is below 1
MalformedCreate(body) ==
    \/ ~body.is_json
    \/ body.type # "dict"
    \/ body.product.type # "dict"
    \/ body.product.id.type # "int"
    \/ body.product.quantity.type # "int"
    \/ body.product.quantity.n < 1

\* the product a Create body names is in the table and in stock
Available(body) ==
    \E n \in DOMAIN Feed : Feed[n].id = body.product.id.n /\ Feed[n].in_stock

\* C12: a Create that fails adds no order and changes none; a missing or
\* malformed product reference or a quantity < 1 answers missing-fields (also
\* when the product does not exist), and a well-formed request for a product
\* that is missing or out of stock answers out-of-inventory.
C12_CreateFails ==
    [][\A body \in CreateBodies :
          (response'.call.op = "create" /\ create_order(body))
          => /\ response'.result.status # 302 => orders' = orders
             /\ MalformedCreate(body) =>
                   response'.result = ErrorsResp(422, "product", "missing-fields")
             /\ (~MalformedCreate(body) /\ ~Available(body)) =>
                   response'.result = ErrorsResp(422, "product", "out-of-inventory")]_vars

\* the fields of an order that are written once, at its creation
WriteOnce(order) ==
    [id |-> order.id, product |-> order.product, quantity |-> order.quantity,
     total_price |-> order.total_price, shipping_price |-> order.shipping_price]

\* C13: no request changes the id, productId, quantity, lineTotal or
\* shippingFee of an order that exists.
C13_WriteOnceFields ==
    [][\A i \in OrderIds :
          /\ i \in DOMAIN orders'
          /\ WriteOnce(orders'[i]) = WriteOnce(orders[i])]_vars

\* C13: an order went through SetCustomerInfo and a Pay that succeeded.
C13_Witness ==
    \E i \in OrderIds :
        /\ Called("pay", i)
        /\ response.result.status = 200
        /\ orders[i].paid
        /\ orders[i].email # None
        /\ WriteOnce(orders[i]) = WriteOnce(response.result.view)

\* C14: a SetCustomerInfo or Pay request that sends id, productId, quantity,
\* lineTotal or shippingFee again does not succeed and changes no order.
C14_ResubmitRejected ==
    [][\A i \in OrderIds, data \in ResubmitData :
          (/\ response'.call = [op |-> PutOp(data), order_id |-> i]
           /\ update_or_pay_order(i, data, Answer(200, Body(CardRecord, TransactionRecord))))
          => /\ response'.result.status # 200
             /\ orders' = orders]_vars

\* the customer information a payload carries, as the columns hold it
PayloadInfo(payload) ==
    [email |-> payload.email,
     shipping_information |->
        [f \in ShipFields |-> payload.shipping_information[f]]]

\* the customer information of an order
OrderInfo(order) ==
    [email |-> order.email,
     shipping_information |-> [f \in ShipFields |-> ShippingInformation(order)[f]]]

\* C15: on an unpaid order that holds customer information A, SetCustomerInfo
\* with other valid data B leaves the email and the five shipping fields of B,
\* taxTotal at the rate of B's province, and nothing else changed.
C15_SecondInfoOverwrites ==
    [][\A i \in OrderIds, B \in OrderPayloads :
          (/\ response'.call = [op |-> "set_customer_info", order_id |-> i]
           /\ ValidCustomerInfo(B)
           /\ ~orders[i].paid
           /\ \E A \in OrderPayloads :
                 /\ ValidCustomerInfo(A)
                 /\ A # B
                 /\ OrderInfo(orders[i]) = PayloadInfo(A)
           /\ update_or_pay_order(i, Data(B, CardMissing), RequestException))
          => /\ response'.result.status = 200
             /\ OrderInfo(orders'[i]) = PayloadInfo(B)
             /\ Rounds(orders'[i].total_price_tax,
                       orders[i].total_price
                           * (100 + TAX_BY_PROVINCE[B.shipping_information.province]))
             /\ WriteOnce(orders'[i]) = WriteOnce(orders[i])
             /\ ~orders'[i].paid]_vars

\* the codes a structured error may carry
ErrorCodes ==
    {"missing-fields", "out-of-inventory", "already-paid", "not-found",
     "invalid-field", "service-error"}

\* a result that is a failure returned to the caller (an exception that
\* leaves the handler is no result)
Failure(result) == result.status \notin {0, 200, 302} /\ result.shape # "exception"

\* the code of a result of the form {errors: {entity: {code, name}}}
StructuredCode(result) ==
    IF result.shape = "errors" THEN result.code
    ELSE IF result.shape = "remote" /\ result.remote.json = "dict" THEN result.remote.errors
    ELSE "<unstructured>"

\* C16: every failure result is a structured error with a code of the list;
\* Read, SetCustomerInfo and Pay on an unknown order id give not-found, and a
\* transport failure of the payment service gives service-error.
C16_StructuredErrors ==
    [][/\ Failure(response'.result) => StructuredCode(response'.result) \in ErrorCodes
       /\ (/\ response'.call.op \in {"read", "set_customer_info", "pay"}
           /\ response'.call.order_id \notin OrderIds)
          => StructuredCode(response'.result) = "not-found"
       /\ \A i \in OrderIds :
             (update_or_pay_order(i, PayData, RequestException) /\ posted'.sent)
             => StructuredCode(response'.result) = "service-error"]_vars

\* the Pay requests that reach the payment service: a card sent for an unpaid
\* order that holds its customer information
PayRequests ==
    {[order_id |-> 1, data |-> PayData,
      order |-> UpdateCustomerInfo(NewOrder(1, Feed[n], q), payload)] :
        n \in {m \in DOMAIN Feed : Feed[m].in_stock},
        q \in 1 .. MaxQuantity,
        payload \in ConcPayloads}

\* C17: every Pay call that reaches the payment service eventually returns,
\* also when the payment service never answers.
C17_PayReturns ==
    \A req \in PayRequests : (req \in inflight) ~> (req \notin inflight)

\* an order of the scenario: 3 units of product 2 (price 10.00, weight 200,
\* in stock)
ScenarioOrder(order) ==
    /\ order.product = 2
    /\ order.quantity = 3
    /\ \E p \in products : p = [id |-> 2, price |-> 1000, weight |-> 200, in_stock |-> TRUE]

FeedProducts(feed) == {feed[k] : k \in DOMAIN feed}

\* C19: Bootstrap on an empty table inserts the products of the feed as they
\* are; on a table that holds a product it fetches nothing and changes no
\* product; a second Bootstrap after it changes nothing more.
C19_BootstrapIdempotent ==
    [][\A fetch \in FeedAnswers :
          (response'.call.op = "bootstrap" /\ init_database(fetch))
          => /\ (products = {} /\ fetch.ok) => products' = FeedProducts(fetch.products)
             /\ products # {} =>
                   /\ products' = products
                   /\ response'.result.shape = "present"
             /\ AfterBootstrap(products', fetch) = products'
             /\ orders' = orders]_vars

\* C19: Bootstrap ran on a table that init_database had filled, after an
\* order was created, and found the products present.
C19_Witness ==
    /\ response.call.op = "bootstrap"
    /\ response.result.shape = "present"
    /\ products = FeedProducts(Feed)
    /\ Len(orders) > 0

C21_NeverThrows ==
    [][/\ response'.result.shape # "exception"
       /\ response'.result.status \notin {200, 302} => orders' = orders]_vars

\* C22: with Pay requests served concurrently, the payment service never
\* approves a request for an order that an approved payment has already paid:
\* no order is charged twice.
C22_ChargedOnce ==
    [][\A req \in inflight :
          (/\ req \notin inflight'
           /\ PutOp(req.data) = "pay"
           /\ posted'.sent
           /\ response'.result.status = 200)
          => ~orders[req.order_id].paid]_vars

====
